---- MODULE Spec2Model ----
(***************************************************************************)
(* Trade and Customs dashboards: src/app.py (filters, top-N rankings,      *)
(* monthly trend, export, insights) and src/app.py.py (fixed top-10 EDA).  *)
(* Each Streamlit run executes the script top to bottom; one action per    *)
(* block of the script, pc is the position in the script.                  *)
(*                                                                         *)
(* Encoding of cell values:                                                *)
(*   - categorical cells are naturals >= 1 whose order stands for the      *)
(*     lexicographic order of the strings; Null is NaN/None;               *)
(*   - currency cells are naturals in units of 10^4 naira, NullNum is NaN; *)
(*   - date cells are yyyymmdd numbers (possibly not a calendar date) or   *)
(*     Null; NaT is Null.                                                  *)
(***************************************************************************)
EXTENDS Integers, Sequences, FiniteSets, TLC

VARIABLES script, defaultFile, uploaded, pc, df,
          metric, hs_products, countries_origin, countries_supply, top_n,
          filtered_df, key_metrics,
          imports_by_hs, supply_countries, origin_countries, tax_by_hs,
          top_importers, monthly_volume, csv, out, views, fault,
          agg, ranked

vars == <<script, defaultFile, uploaded, pc, df,
          metric, hs_products, countries_origin, countries_supply, top_n,
          filtered_df, key_metrics,
          imports_by_hs, supply_countries, origin_countries, tax_by_hs,
          top_importers, monthly_volume, csv, out, views, fault,
          agg, ranked>>

(***************************************************************************)
(* Bounds of the model                                                     *)
(***************************************************************************)
MaxRows == 2
MaxGroups == 6

(***************************************************************************)
(* Program constants                                                       *)
(***************************************************************************)
Null == 0
NullNum == -1
Million == 100
Billion == 100000
MinTopN == 5
MaxTopN == 20
TopNFixed == 10

HS_PRODUCT == "HS Product"
HS_CODE == "HS Code"
ORIGIN == "Country of Origin"
SUPPLY == "Country of Supply"
IMPORTER == "Importer"
CIF == "CIF Value (N)"
FOB == "FOB Value (N)"
TAX == "Total Tax(N)"
RECEIPT_DATE == "Receipt Date"

Metrics == {CIF, FOB, TAX}
date_candidates == <<"Receipt Date", "Receipt_Date", "Date", "date", "receipt_date">>
TopNChoices == {MinTopN, TopNFixed, MaxTopN}

(***************************************************************************)
(* Input spreadsheets                                                      *)
(***************************************************************************)
AllColumns == {HS_PRODUCT, HS_CODE, ORIGIN, SUPPLY, IMPORTER, CIF, FOB, TAX, RECEIPT_DATE}

Rec(hp, hc, o, s, i, c, f, t, d) ==
    [x \in AllColumns |->
        CASE x = HS_PRODUCT -> hp
          [] x = HS_CODE -> hc
          [] x = ORIGIN -> o
          [] x = SUPPLY -> s
          [] x = IMPORTER -> i
          [] x = CIF -> c
          [] x = FOB -> f
          [] x = TAX -> t
          [] OTHER -> d]

Pool ==
    { Rec(1, 1, 1, 1, 1, 200000, 300, 50, 20240315),
      Rec(2, 2, 2, 1, 1, 300, 300, NullNum, 20240110),
      Rec(1, 2, Null, 2, 2, 300, NullNum, 50, 20240230),
      Rec(Null, 1, 1, 2, Null, NullNum, 50, 0, Null) }

SchemaApp == AllColumns \ {HS_CODE}
SchemaEda == AllColumns \ {HS_PRODUCT}
SchemaNoDate == SchemaApp \ {RECEIPT_DATE}
SchemaNoImporter == SchemaApp \ {IMPORTER}
Schemas == {SchemaApp, SchemaEda, SchemaNoDate, SchemaNoImporter}

RowSeqs == UNION {[1..n -> Pool] : n \in 0..MaxRows}

\* pd.read_excel: a fresh DataFrame object (id 1) holding the sheet's rows
MkDf(cols, rs) ==
    [present |-> TRUE, id |-> 1, cols |-> cols,
     rows |-> [i \in 1..Len(rs) |-> [c \in cols |-> rs[i][c]]]]

Datasets == {MkDf(S, rs) : S \in Schemas, rs \in RowSeqs}

NoneDf == [present |-> FALSE, id |-> 0, cols |-> {}, rows |-> <<>>]
EmptyDataFrame == [present |-> TRUE, id |-> 1, cols |-> {}, rows |-> <<>>]

(***************************************************************************)
(* pandas operations used by the scripts                                   *)
(***************************************************************************)
Min2(a, b) == IF a <= b THEN a ELSE b

RECURSIVE SortedSeq(_)
SortedSeq(S) ==
    IF S = {} THEN <<>>
    ELSE LET m == CHOOSE x \in S : \A y \in S : x <= y
         IN <<m>> \o SortedSeq(S \ {m})

\* df[c].dropna().unique()
DropNaUnique(d, c) == {d.rows[i][c] : i \in 1..Len(d.rows)} \ {Null}

\* filtered_df = df: no copy, both names denote one object
DfNoCopy(d) == d

\* d.copy(): a new object (id 2) with the same contents
DfCopy(d) == [d EXCEPT !.id = 2]

\* a membership test that lets NaN cells through
IsInKeepNull(d, c, accepted) ==
    LET Keep(r) == r[c] \in accepted \/ r[c] = Null
    IN [d EXCEPT !.id = 3, !.rows = SelectSeq(d.rows, Keep)]

\* d[d[c].isin(accepted)]: boolean indexing builds a new object (id 3)
IsIn(d, c, accepted) ==
    LET Keep(r) == r[c] \in accepted
    IN [d EXCEPT !.id = 3, !.rows = SelectSeq(d.rows, Keep)]

\* Series.sum(): NaN cells are skipped, the empty sum is 0
RECURSIVE SumSkipNa(_, _)
SumSkipNa(rows, m) ==
    IF rows = <<>> THEN 0
    ELSE (IF Head(rows)[m] = NullNum THEN 0 ELSE Head(rows)[m])
         + SumSkipNa(Tail(rows), m)

\* Series.nunique(): distinct non-null values
NUnique(rows, c) == Cardinality({rows[i][c] : i \in 1..Len(rows)} \ {Null})

\* groupby(key, dropna=False)[m].sum(): null keys form a group of their own
GroupBySumKeepNull(rows, key, m) ==
    LET ks == SortedSeq({rows[i][key] : i \in 1..Len(rows)})
        Grp(k) == LET Same(r) == r[key] = k IN SelectSeq(rows, Same)
    IN [j \in 1..Len(ks) |-> <<ks[j], SumSkipNa(Grp(ks[j]), m)>>]

\* groupby(key)[m].sum(): null keys dropped, groups in ascending key order
GroupBySum(rows, key, m) ==
    LET ks == SortedSeq({rows[i][key] : i \in 1..Len(rows)} \ {Null})
        Grp(k) == LET Same(r) == r[key] = k IN SelectSeq(rows, Same)
    IN [j \in 1..Len(ks) |-> <<ks[j], SumSkipNa(Grp(ks[j]), m)>>]

\* sort_values(ascending=False) with the default kind="quicksort": ordered by
\* value only; the order among equal values is whatever the sort produces.
RECURSIVE RankOrders(_)
RankOrders(S) ==
    IF S = {} THEN {<<>>}
    ELSE LET top == {p \in S : \A q \in S : q[2] <= p[2]}
         IN UNION {{<<p>> \o r : r \in RankOrders(S \ {p})} : p \in top}

SortValuesDesc(a) == RankOrders({a[i] : i \in 1..Len(a)})

\* .head(n + 1)
HeadNOffByOne(s, n) == SubSeq(s, 1, IF n + 1 <= Len(s) THEN n + 1 ELSE Len(s))

\* .head(n)
HeadN(s, n) == SubSeq(s, 1, Min2(n, Len(s)))

\* .sort_values(ascending=False).head(n).reset_index(): every outcome
Ranker(a, n) == {HeadN(o, n) : o \in SortValuesDesc(a)}

\* One ranked view: groupby(key)[m].sum().sort_values(ascending=False).head(n)
TopGroups(rows, key, m, n) == Ranker(GroupBySum(rows, key, m), n)

\* f"{x/d:.2f}": hundredths of x/d, rounded to nearest (ties to even on the
\* exact quotient)
Fixed2(x, d) ==
    LET q == (x * 100) \div d
        r == (x * 100) % d
    IN IF 2 * r > d THEN q + 1
       ELSE IF 2 * r = d THEN q + (q % 2)
       ELSE q

human_format(x) ==
    IF x >= Billion THEN [style |-> "fixed2", n |-> Fixed2(x, Billion)]
    ELSE IF x >= Million THEN [style |-> "fixed2", n |-> Fixed2(x, Million)]
    ELSE [style |-> "grouped0", n |-> x]

\* col.metric(label, f"{human_format(total)}B")
MetricText(total) == [num |-> human_format(total), suffix |-> "B"]

\* pd.to_datetime(..., errors="coerce")
DaysIn(y, m) ==
    IF m \in {4, 6, 9, 11} THEN 30
    ELSE IF m = 2
         THEN (IF (y % 4 = 0 /\ y % 100 # 0) \/ y % 400 = 0 THEN 29 ELSE 28)
         ELSE 31

ToDatetime(v) ==
    LET y == v \div 10000
        m == (v \div 100) % 100
        d == v % 100
    IN IF v = Null THEN Null
       ELSE IF m \in 1..12 /\ d >= 1 /\ d <= DaysIn(y, m) THEN v
       ELSE Null

\* .dt.to_period("M") and .dt.to_timestamp()
ToPeriodM(v) == v \div 100
ToTimestamp(p) == p * 100 + 1

CoerceDates(d, c) ==
    [d EXCEPT !.rows = [i \in 1..Len(d.rows) |->
                          [d.rows[i] EXCEPT ![c] = ToDatetime(d.rows[i][c])]]]

\* dropna(subset=[date_col, metric])
DropNaDateMetric(rows, c, m) ==
    LET Keep(r) == r[c] # Null /\ r[m] # NullNum
    IN SelectSeq(rows, Keep)

\* the monthly sums ordered like a ranking: by value, descending
MonthlyVolumeByValue(rows, c, m) ==
    LET ps == {ToPeriodM(rows[i][c]) : i \in 1..Len(rows)}
        Grp(p) == LET Same(r) == ToPeriodM(r[c]) = p IN SelectSeq(rows, Same)
        sums == {<<ToTimestamp(p), SumSkipNa(Grp(p), m)>> : p \in ps}
    IN CHOOSE o \in RankOrders(sums) : TRUE

\* groupby(date.dt.to_period("M"))[m].sum().reset_index(), then to_timestamp
MonthlyVolume(rows, c, m) ==
    LET ps == SortedSeq({ToPeriodM(rows[i][c]) : i \in 1..Len(rows)})
        Grp(p) == LET Same(r) == ToPeriodM(r[c]) = p IN SelectSeq(rows, Same)
    IN [j \in 1..Len(ps) |-> <<ToTimestamp(ps[j]), SumSkipNa(Grp(ps[j]), m)>>]

\* next((c for c in date_candidates if c in columns), None)
FirstDateCol(cols) ==
    LET hits == {j \in 1..Len(date_candidates) : date_candidates[j] \in cols}
    IN IF hits = {} THEN "" ELSE date_candidates[CHOOSE j \in hits : \A k \in hits : j <= k]

(***************************************************************************)
(* Run-local values                                                        *)
(***************************************************************************)
Unbound == [bound |-> FALSE, rows |-> <<>>]
Bound(rs) == [bound |-> TRUE, rows |-> rs]
NoMetrics == [shown |-> FALSE, total_imports |-> 0, total_fob |-> 0, total_tax |-> 0,
              uniques |-> <<>>, texts |-> <<>>]
NoTrend == [state |-> "unset", rows |-> <<>>]
Msg(kind) == [kind |-> kind, key |-> Null, text |-> 0]
\* f"... **{top[key]}** ... **₦{top['Scaled']:.2f}B**" with Scaled = value / 1e9
InsightLine(kind, top) == [kind |-> kind, key |-> top[1], text |-> Fixed2(top[2], Billion)]

\* DataFrame.empty
IsEmpty(d) == d.cols = {} \/ d.rows = <<>>

StartPc(s) == IF s = "app.py" THEN "load" ELSE "eda_load"

session == <<script, defaultFile, uploaded, agg, ranked>>
selections == <<metric, hs_products, countries_origin, countries_supply, top_n>>
rankings == <<imports_by_hs, supply_countries, origin_countries, tax_by_hs, top_importers>>

\* An uncaught exception ends the run
Raise(e) ==
    /\ pc' = "crashed"
    /\ fault' = e

(***************************************************************************)
(* src/app.py                                                              *)
(***************************************************************************)
\* lines 15-23
LoadData ==
    /\ script = "app.py" /\ pc = "load"
    /\ IF defaultFile.present
       THEN df' = defaultFile /\ out' = out
       ELSE df' = NoneDf /\ out' = Append(out, Msg("error_default_dataset_not_found"))
    /\ pc' = "upload"
    /\ UNCHANGED <<session, selections, rankings, filtered_df, key_metrics,
                   monthly_volume, csv, views, fault>>

\* lines 28-33
UploadData ==
    /\ script = "app.py" /\ pc = "upload"
    /\ df' = IF uploaded.present THEN uploaded ELSE df
    /\ pc' = IF df'.present THEN "sidebar" ELSE "insights"
    /\ UNCHANGED <<session, selections, rankings, filtered_df, key_metrics,
                   monthly_volume, csv, out, views, fault>>

\* lines 34-56
Sidebar ==
    /\ script = "app.py" /\ pc = "sidebar"
    /\ IF {HS_PRODUCT, ORIGIN, SUPPLY} \subseteq df.cols
       THEN /\ \E m \in Metrics, n \in TopNChoices,
                  hs \in SUBSET DropNaUnique(df, HS_PRODUCT),
                  co \in SUBSET DropNaUnique(df, ORIGIN),
                  cs \in SUBSET DropNaUnique(df, SUPPLY) :
                    /\ metric' = m
                    /\ top_n' = n
                    /\ hs_products' = hs
                    /\ countries_origin' = co
                    /\ countries_supply' = cs
            /\ pc' = "filter"
            /\ fault' = fault
       ELSE /\ Raise("KeyError")
            /\ UNCHANGED selections
    /\ UNCHANGED <<session, df, rankings, filtered_df, key_metrics,
                   monthly_volume, csv, out, views>>

\* lines 61-67
ApplyFilters ==
    /\ script = "app.py" /\ pc = "filter"
    /\ LET f0 == DfCopy(df)
           f1 == IF hs_products # {} THEN IsIn(f0, HS_PRODUCT, hs_products) ELSE f0
           f2 == IF countries_origin # {} THEN IsIn(f1, ORIGIN, countries_origin) ELSE f1
           f3 == IF countries_supply # {} THEN IsIn(f2, SUPPLY, countries_supply) ELSE f2
       IN filtered_df' = f3
    /\ pc' = "metrics"
    /\ UNCHANGED <<session, selections, rankings, df, key_metrics,
                   monthly_volume, csv, out, views, fault>>

\* lines 92-102
KeyMetrics ==
    /\ script = "app.py" /\ pc = "metrics"
    /\ IF {CIF, FOB, TAX, IMPORTER} \subseteq filtered_df.cols
       THEN /\ LET total_imports == SumSkipNa(filtered_df.rows, CIF)
                   total_fob == SumSkipNa(filtered_df.rows, FOB)
                   total_tax == SumSkipNa(filtered_df.rows, TAX)
                   unique_importers == NUnique(filtered_df.rows, IMPORTER)
               IN key_metrics' =
                    [shown |-> TRUE, total_imports |-> total_imports,
                     total_fob |-> total_fob, total_tax |-> total_tax,
                     uniques |-> <<unique_importers>>,
                     texts |-> <<MetricText(total_imports), MetricText(total_fob),
                                 MetricText(total_tax)>>]
            /\ views' = views \cup {"key_metrics"}
            /\ pc' = "charts"
            /\ fault' = fault
       ELSE /\ Raise("KeyError")
            /\ UNCHANGED <<key_metrics, views>>
    /\ UNCHANGED <<session, selections, rankings, df, filtered_df,
                   monthly_volume, csv, out>>

\* lines 130-187
Charts ==
    /\ script = "app.py" /\ pc = "charts"
    /\ IF {HS_PRODUCT, SUPPLY, ORIGIN, IMPORTER, CIF, TAX, metric} \subseteq filtered_df.cols
       THEN /\ \E r1 \in TopGroups(filtered_df.rows, HS_PRODUCT, metric, top_n),
                  r2 \in TopGroups(filtered_df.rows, SUPPLY, metric, top_n),
                  r3 \in TopGroups(filtered_df.rows, ORIGIN, metric, top_n),
                  r4 \in TopGroups(filtered_df.rows, HS_PRODUCT, TAX, top_n),
                  r5 \in TopGroups(filtered_df.rows, IMPORTER, CIF, top_n) :
                    /\ imports_by_hs' = Bound(r1)
                    /\ supply_countries' = Bound(r2)
                    /\ origin_countries' = Bound(r3)
                    /\ tax_by_hs' = Bound(r4)
                    /\ top_importers' = Bound(r5)
            /\ views' = views \cup {"imports_by_hs", "supply_countries",
                                    "origin_countries", "tax_by_hs", "top_importers"}
            /\ pc' = "trend"
            /\ fault' = fault
       ELSE /\ Raise("KeyError")
            /\ UNCHANGED <<rankings, views>>
    /\ UNCHANGED <<session, selections, df, filtered_df, key_metrics,
                   monthly_volume, csv, out>>

\* lines 199-236
MonthlyTrend ==
    /\ script = "app.py" /\ pc = "trend"
    /\ LET date_col == FirstDateCol(filtered_df.cols)
       IN IF date_col = ""
          THEN /\ out' = Append(out, Msg("info_no_date_column"))
               /\ monthly_volume' = [state |-> "no_date_column", rows |-> <<>>]
               /\ UNCHANGED <<df, filtered_df, views>>
          ELSE LET coerced == CoerceDates(filtered_df, date_col)
                   trend_rows == DropNaDateMetric(coerced.rows, date_col, metric)
               IN /\ filtered_df' = coerced
                  \* the assignment writes into the object filtered_df names
                  /\ df' = IF df.id = filtered_df.id
                           THEN [df EXCEPT !.rows = coerced.rows] ELSE df
                  /\ IF trend_rows = <<>>
                     THEN /\ out' = Append(out, Msg("info_no_valid_rows"))
                          /\ monthly_volume' = [state |-> "no_valid_rows", rows |-> <<>>]
                          /\ views' = views
                     ELSE /\ monthly_volume' =
                               [state |-> "plotted",
                                rows |-> MonthlyVolume(trend_rows, date_col, metric)]
                          /\ views' = views \cup {"monthly_trend"}
                          /\ out' = out
    /\ pc' = "export"
    /\ UNCHANGED <<session, selections, rankings, key_metrics, csv, fault>>

\* lines 241-248
Export ==
    /\ script = "app.py" /\ pc = "export"
    /\ csv' = filtered_df
    /\ views' = views \cup {"export"}
    /\ pc' = "insights"
    /\ UNCHANGED <<session, selections, rankings, df, filtered_df, key_metrics,
                   monthly_volume, out, fault>>

\* the insights without their "if not ... .empty" guards: iloc[0] on an empty frame
InsightsUnguarded ==
    /\ script = "app.py" /\ pc = "insights"
    /\ IF ~(imports_by_hs.bound /\ origin_countries.bound /\ supply_countries.bound)
       THEN /\ Raise("NameError")
            /\ UNCHANGED <<out, views>>
       ELSE IF imports_by_hs.rows = <<>> \/ origin_countries.rows = <<>>
               \/ supply_countries.rows = <<>>
       THEN /\ Raise("IndexError")
            /\ UNCHANGED <<out, views>>
       ELSE /\ out' = out \o <<InsightLine("top_hs", imports_by_hs.rows[1]),
                                InsightLine("top_country", origin_countries.rows[1]),
                                InsightLine("top_supply", supply_countries.rows[1])>>
            /\ views' = views \cup {"insights"}
            /\ pc' = "done"
            /\ fault' = fault
    /\ UNCHANGED <<session, selections, rankings, df, filtered_df, key_metrics,
                   monthly_volume, csv>>

\* lines 252-273
Insights ==
    /\ script = "app.py" /\ pc = "insights"
    /\ IF imports_by_hs.bound /\ origin_countries.bound /\ supply_countries.bound
       THEN /\ out' = out
                \o (IF imports_by_hs.rows # <<>>
                    THEN <<InsightLine("top_hs", imports_by_hs.rows[1])>> ELSE <<>>)
                \o (IF origin_countries.rows # <<>>
                    THEN <<InsightLine("top_country", origin_countries.rows[1])>> ELSE <<>>)
                \o (IF supply_countries.rows # <<>>
                    THEN <<InsightLine("top_supply", supply_countries.rows[1])>> ELSE <<>>)
            /\ views' = views \cup {"insights"}
            /\ pc' = "done"
            /\ fault' = fault
       ELSE /\ Raise("NameError")
            /\ UNCHANGED <<out, views>>
    /\ UNCHANGED <<session, selections, rankings, df, filtered_df, key_metrics,
                   monthly_volume, csv>>

(***************************************************************************)
(* src/app.py.py                                                           *)
(***************************************************************************)
\* lines 15-31
EdaLoad ==
    /\ script = "app.py.py" /\ pc = "eda_load"
    /\ IF uploaded.present
       THEN df' = uploaded /\ out' = Append(out, Msg("success_uploaded"))
       ELSE IF defaultFile.present
            THEN df' = defaultFile /\ out' = out
            ELSE df' = EmptyDataFrame /\ out' = Append(out, Msg("error_could_not_find"))
    /\ pc' = "eda_preview"
    /\ UNCHANGED <<session, selections, rankings, filtered_df, key_metrics,
                   monthly_volume, csv, views, fault>>

\* lines 36-47
EdaPreview ==
    /\ script = "app.py.py" /\ pc = "eda_preview"
    /\ IF ~IsEmpty(df)
       THEN /\ views' = views \cup {"preview"}
            /\ out' = out
            /\ pc' = "eda_metrics"
       ELSE /\ out' = Append(out, Msg("warning_no_data"))
            /\ views' = views
            /\ pc' = "done"
    /\ UNCHANGED <<session, selections, rankings, df, filtered_df, key_metrics,
                   monthly_volume, csv, fault>>

\* lines 52-63
EdaMetrics ==
    /\ script = "app.py.py" /\ pc = "eda_metrics"
    /\ IF {CIF, TAX, HS_CODE, ORIGIN} \subseteq df.cols
       THEN /\ LET total_imports == SumSkipNa(df.rows, CIF)
                   total_tax == SumSkipNa(df.rows, TAX)
                   unique_hs_codes == NUnique(df.rows, HS_CODE)
                   unique_countries_origin == NUnique(df.rows, ORIGIN)
               IN key_metrics' =
                    [shown |-> TRUE, total_imports |-> total_imports,
                     total_fob |-> 0, total_tax |-> total_tax,
                     uniques |-> <<unique_hs_codes, unique_countries_origin>>,
                     texts |-> <<[num |-> [style |-> "grouped0", n |-> total_imports],
                                  suffix |-> ""],
                                 [num |-> [style |-> "grouped0", n |-> total_tax],
                                  suffix |-> ""]>>]
            /\ views' = views \cup {"key_metrics"}
            /\ pc' = "eda_charts"
            /\ fault' = fault
       ELSE /\ Raise("KeyError")
            /\ UNCHANGED <<key_metrics, views>>
    /\ UNCHANGED <<session, selections, rankings, df, filtered_df,
                   monthly_volume, csv, out>>

\* lines 68-129; top_hs, top_supply, top_origin, top_tax and top_importers are
\* held in imports_by_hs, supply_countries, origin_countries, tax_by_hs and
\* top_importers
EdaCharts ==
    /\ script = "app.py.py" /\ pc = "eda_charts"
    /\ IF {SUPPLY, IMPORTER} \subseteq df.cols
       THEN /\ \E r1 \in TopGroups(df.rows, HS_CODE, CIF, TopNFixed),
                  r2 \in TopGroups(df.rows, ORIGIN, CIF, TopNFixed),
                  r3 \in TopGroups(df.rows, SUPPLY, CIF, TopNFixed),
                  r4 \in TopGroups(df.rows, HS_CODE, TAX, TopNFixed),
                  r5 \in TopGroups(df.rows, IMPORTER, CIF, TopNFixed) :
                    /\ imports_by_hs' = Bound(r1)
                    /\ origin_countries' = Bound(r2)
                    /\ supply_countries' = Bound(r3)
                    /\ tax_by_hs' = Bound(r4)
                    /\ top_importers' = Bound(r5)
            /\ views' = views \cup {"imports_by_hs", "supply_countries",
                                    "origin_countries", "tax_by_hs", "top_importers"}
            /\ pc' = "done"
            /\ fault' = fault
       ELSE /\ Raise("KeyError")
            /\ UNCHANGED <<rankings, views>>
    /\ UNCHANGED <<session, selections, df, filtered_df, key_metrics,
                   monthly_volume, csv, out>>

(***************************************************************************)
(* A widget interaction reruns the script from the top with fresh names    *)
(***************************************************************************)
RunLocalsInit ==
    /\ df = NoneDf
    /\ metric = "" /\ hs_products = {} /\ countries_origin = {}
    /\ countries_supply = {} /\ top_n = 0
    /\ filtered_df = NoneDf
    /\ key_metrics = NoMetrics
    /\ imports_by_hs = Unbound /\ supply_countries = Unbound
    /\ origin_countries = Unbound /\ tax_by_hs = Unbound /\ top_importers = Unbound
    /\ monthly_volume = NoTrend
    /\ csv = NoneDf
    /\ out = <<>>
    /\ views = {}
    /\ fault = "none"

Rerun ==
    /\ pc \in {"done", "crashed"}
    /\ script \in {"app.py", "app.py.py"}
    /\ pc' = StartPc(script)
    /\ df' = NoneDf
    /\ metric' = "" /\ hs_products' = {} /\ countries_origin' = {}
    /\ countries_supply' = {} /\ top_n' = 0
    /\ filtered_df' = NoneDf
    /\ key_metrics' = NoMetrics
    /\ imports_by_hs' = Unbound /\ supply_countries' = Unbound
    /\ origin_countries' = Unbound /\ tax_by_hs' = Unbound /\ top_importers' = Unbound
    /\ monthly_volume' = NoTrend
    /\ csv' = NoneDf
    /\ out' = <<>>
    /\ views' = {}
    /\ fault' = "none"
    /\ UNCHANGED session

\* The default file and the upload of a session: the default file alone, an
\* upload alone, neither, or a small upload replacing the default file
Sessions ==
    {<<d, NoneDf>> : d \in Datasets}
    \cup {<<NoneDf, d>> : d \in Datasets}
    \cup {<<NoneDf, NoneDf>>}
    \cup {<<MkDf(SchemaApp, <<>>), d>> : d \in {x \in Datasets : Len(x.rows) <= 1}}

Init ==
    /\ script \in {"app.py", "app.py.py"}
    /\ \E s \in Sessions : defaultFile = s[1] /\ uploaded = s[2]
    /\ pc = StartPc(script)
    /\ RunLocalsInit
    /\ agg = <<>>
    /\ ranked = Unbound

Next ==
    \/ LoadData
    \/ UploadData
    \/ Sidebar
    \/ ApplyFilters
    \/ KeyMetrics
    \/ Charts
    \/ MonthlyTrend
    \/ Export
    \/ Insights
    \/ EdaLoad
    \/ EdaPreview
    \/ EdaMetrics
    \/ EdaCharts
    \/ Rerun

Spec == Init /\ [][Next]_vars

(***************************************************************************)
(* The ranker on its own: aggregates drawn from a bounded set              *)
(***************************************************************************)
RankValues == {1, 2}

AggOf(f) == LET ks == SortedSeq(DOMAIN f) IN [j \in 1..Len(ks) |-> <<ks[j], f[ks[j]]>>]

\* every aggregate over at most MaxGroups keys, and two wide ones (distinct
\* values) with more groups than the fixed and the largest top_n
SmallAggs == {AggOf(f) : f \in UNION {[S -> RankValues] : S \in SUBSET (1..MaxGroups)}}
WideAggs == {[k \in 1..n |-> <<k, (k * 5) % 23>>] : n \in {TopNFixed + 1, MaxTopN + 1}}

InitRank ==
    /\ script = "ranker"
    /\ defaultFile = NoneDf /\ uploaded = NoneDf
    /\ pc = "rank"
    /\ RunLocalsInit
    /\ agg \in SmallAggs \cup WideAggs
    /\ ranked = Unbound

\* a slider position, then .sort_values(ascending=False).head(top_n)
RankStep ==
    /\ pc = "rank"
    /\ \E n \in MinTopN..MaxTopN :
          \E r \in Ranker(agg, n) :
             /\ top_n' = n
             /\ ranked' = Bound(r)
    /\ pc' = "ranked"
    /\ UNCHANGED <<script, defaultFile, uploaded, agg, df, metric, hs_products,
                   countries_origin, countries_supply, filtered_df, key_metrics,
                   rankings, monthly_volume, csv, out, views, fault>>

NextRank == RankStep

SpecRank == InitRank /\ [][NextRank]_vars

(***************************************************************************)
(* Properties                                                              *)
(***************************************************************************)
Measure0(r, m) == IF r[m] = NullNum THEN 0 ELSE r[m]

\* the sum of measure m over the rows of index set I
RECURSIVE SumOver(_, _, _)
SumOver(I, rows, m) ==
    IF I = {} THEN 0
    ELSE LET i == CHOOSE x \in I : TRUE
         IN Measure0(rows[i], m) + SumOver(I \ {i}, rows, m)

KeysOf(rs) == {rs[j][1] : j \in 1..Len(rs)}
AppRequired == {HS_PRODUCT, ORIGIN, SUPPLY, IMPORTER, CIF, FOB, TAX}
AfterFilter == script = "app.py" /\ pc \in {"metrics", "charts", "trend"}
AfterCharts == \/ script = "app.py" /\ pc \in {"trend", "export", "insights", "done"}
               \/ script = "app.py.py" /\ pc = "done" /\ imports_by_hs.bound
AfterTrend == script = "app.py" /\ pc \in {"export", "insights", "done"}
                /\ filtered_df.present

\* ---- C1 ----
\* the filter predicate of the claim: every column with a non-empty accepted
\* set holds a non-null member of it
Passes(r) ==
    /\ hs_products # {} => (r[HS_PRODUCT] # Null /\ r[HS_PRODUCT] \in hs_products)
    /\ countries_origin # {} => (r[ORIGIN] # Null /\ r[ORIGIN] \in countries_origin)
    /\ countries_supply # {} => (r[SUPPLY] # Null /\ r[SUPPLY] \in countries_supply)

\* C1: the filtered view holds exactly the records of the store that pass the
\* conjunction of the non-empty filters (a null cell never passes, an empty
\* filter does not restrict), in the store's order.
C1_FilterStage ==
    AfterFilter =>
        LET I == {i \in 1..Len(df.rows) : Passes(df.rows[i])}
            Nth(j) == CHOOSE i \in I : Cardinality({k \in I : k <= i}) = j
        IN /\ filtered_df.cols = df.cols
           /\ Len(filtered_df.rows) = Cardinality(I)
           /\ \A j \in 1..Len(filtered_df.rows) : filtered_df.rows[j] = df.rows[Nth(j)]

\* a filter is set, a record with a null cell in the filtered column is
\* rejected and another record survives
C1_Witness ==
    /\ AfterFilter
    /\ hs_products # {}
    /\ \E i \in 1..Len(df.rows) : df.rows[i][HS_PRODUCT] = Null
    /\ Len(filtered_df.rows) >= 1
    /\ Len(filtered_df.rows) < Len(df.rows)

\* ---- C2 ----
\* ranked view rs over rows, grouped by key and summing m, cut at n
AggregateOk(rs, rows, key, m, n) ==
    LET keys == {rows[i][key] : i \in 1..Len(rows)} \ {Null}
    IN /\ \A j \in 1..Len(rs) :
             /\ rs[j][1] \in keys
             /\ rs[j][2] = SumOver({i \in 1..Len(rows) : rows[i][key] = rs[j][1]}, rows, m)
       /\ \A j, k \in 1..Len(rs) : rs[j][1] = rs[k][1] => j = k
       /\ Cardinality(keys) <= n => KeysOf(rs) = keys

\* C2: every aggregation has exactly one group per distinct non-null key of
\* the view, valued by the sum of the measure over all records of that key
\* (a null measure counts 0, duplicates each count); a record with a null key
\* is in no group of that aggregation and still counts under its other keys.
C2_Aggregator ==
    AfterCharts =>
        IF script = "app.py"
        THEN /\ AggregateOk(imports_by_hs.rows, filtered_df.rows, HS_PRODUCT, metric, top_n)
             /\ AggregateOk(supply_countries.rows, filtered_df.rows, SUPPLY, metric, top_n)
             /\ AggregateOk(origin_countries.rows, filtered_df.rows, ORIGIN, metric, top_n)
             /\ AggregateOk(tax_by_hs.rows, filtered_df.rows, HS_PRODUCT, TAX, top_n)
             /\ AggregateOk(top_importers.rows, filtered_df.rows, IMPORTER, CIF, top_n)
        ELSE /\ AggregateOk(imports_by_hs.rows, df.rows, HS_CODE, CIF, TopNFixed)
             /\ AggregateOk(supply_countries.rows, df.rows, SUPPLY, CIF, TopNFixed)
             /\ AggregateOk(origin_countries.rows, df.rows, ORIGIN, CIF, TopNFixed)
             /\ AggregateOk(tax_by_hs.rows, df.rows, HS_CODE, TAX, TopNFixed)
             /\ AggregateOk(top_importers.rows, df.rows, IMPORTER, CIF, TopNFixed)

\* two records of one importer, one of them without a country of origin: it
\* is summed into the importer's group and the origin ranking has no group
\* for it
C2_Witness ==
    /\ script = "app.py" /\ pc = "done" /\ metric = CIF
    /\ \E i, j \in 1..Len(filtered_df.rows) :
          /\ i # j
          /\ filtered_df.rows[i][ORIGIN] = Null
          /\ filtered_df.rows[i][IMPORTER] # Null
          /\ filtered_df.rows[i][IMPORTER] = filtered_df.rows[j][IMPORTER]
          /\ filtered_df.rows[i][CIF] > 0
          /\ \E k \in 1..Len(top_importers.rows) :
                /\ top_importers.rows[k][1] = filtered_df.rows[i][IMPORTER]
                /\ top_importers.rows[k][2] >= 2 * filtered_df.rows[i][CIF]
    /\ Len(origin_countries.rows) < Len(top_importers.rows)

\* ---- C3 ----
\* C3: the ranked output is descending by value and groups of equal value
\* are in ascending order of their key.
C3_RankTieBreakByKey ==
    pc = "ranked" =>
        \A j, k \in 1..Len(ranked.rows) :
            j < k => \/ ranked.rows[j][2] > ranked.rows[k][2]
                     \/ /\ ranked.rows[j][2] = ranked.rows[k][2]
                        /\ ranked.rows[j][1] < ranked.rows[k][1]

\* ---- C4 ----
\* C4: the ranked output has min(top_n, number of groups) entries, all of
\* them groups of the aggregate, and no omitted group has a value strictly
\* greater than an included one.
C4_TopNBound ==
    pc = "ranked" =>
        LET all == {agg[i] : i \in 1..Len(agg)}
            kept == {ranked.rows[j] : j \in 1..Len(ranked.rows)}
        IN /\ Len(ranked.rows) = (IF top_n <= Len(agg) THEN top_n ELSE Len(agg))
           /\ Cardinality(kept) = Len(ranked.rows)
           /\ kept \subseteq all
           /\ \A p \in all \ kept : \A q \in kept : p[2] <= q[2]

\* more groups than top_n, and the cut falls inside a tie
C4_Witness ==
    /\ pc = "ranked"
    /\ Len(agg) > top_n
    /\ Len(ranked.rows) = top_n
    /\ \E i \in 1..Len(agg) :
          /\ \A j \in 1..Len(ranked.rows) : ranked.rows[j] # agg[i]
          /\ agg[i][2] = ranked.rows[Len(ranked.rows)][2]

\* ---- C5 ----
\* the text the claim expects for a total
ExpectedText(v) ==
    IF v >= Billion THEN [num |-> [style |-> "fixed2", n |-> Fixed2(v, Billion)], suffix |-> "B"]
    ELSE IF v >= Million THEN [num |-> [style |-> "fixed2", n |-> Fixed2(v, Million)], suffix |-> "M"]
    ELSE [num |-> [style |-> "grouped0", n |-> v], suffix |-> ""]

\* C5: each total of Key Metrics is shown with the number and the unit suffix
\* of its magnitude band: /1e9 and "B", /1e6 and "M", or unscaled and no
\* suffix.
C5_UnitMatchesBand ==
    (script = "app.py" /\ key_metrics.shown) =>
        /\ key_metrics.texts[1] = ExpectedText(key_metrics.total_imports)
        /\ key_metrics.texts[2] = ExpectedText(key_metrics.total_fob)
        /\ key_metrics.texts[3] = ExpectedText(key_metrics.total_tax)

\* ---- C6 ----
LoadFailed ==
    /\ script \in {"app.py", "app.py.py"}
    /\ ~defaultFile.present /\ ~uploaded.present
    /\ pc \notin {"load", "eda_load"}

\* C6: with the default file missing and no upload, the run shows an error,
\* evaluates no view (no ranking is bound or read) and ends without a fault.
C6_LoadFailureRunsNoView ==
    LoadFailed =>
        /\ \E j \in 1..Len(out) :
              out[j].kind \in {"error_default_dataset_not_found", "error_could_not_find"}
        /\ views = {}
        /\ ~imports_by_hs.bound
        /\ fault = "none"
        /\ pc # "crashed"

\* ---- C7 ----
EmptyResult ==
    /\ script = "app.py"
    /\ df.present /\ AppRequired \subseteq df.cols
    /\ filtered_df.present /\ filtered_df.rows = <<>>

\* C7: when the filters match no record of a loaded store, the totals are 0,
\* the five rankings are empty, the monthly trend has no series, no insight
\* line is written and the run ends without raising.
C7_EmptyResult ==
    EmptyResult =>
        /\ fault = "none" /\ pc # "crashed"
        /\ key_metrics.shown =>
              /\ key_metrics.total_imports = 0
              /\ key_metrics.total_fob = 0
              /\ key_metrics.total_tax = 0
        /\ imports_by_hs.rows = <<>> /\ supply_countries.rows = <<>>
        /\ origin_countries.rows = <<>> /\ tax_by_hs.rows = <<>>
        /\ top_importers.rows = <<>>
        /\ monthly_volume.state # "plotted" /\ monthly_volume.rows = <<>>
        /\ "monthly_trend" \notin views
        /\ \A j \in 1..Len(out) : out[j].kind \notin {"top_hs", "top_country", "top_supply"}
        /\ pc = "done" =>
              /\ key_metrics.shown
              /\ imports_by_hs.bound /\ supply_countries.bound /\ origin_countries.bound
              /\ tax_by_hs.bound /\ top_importers.bound
              /\ monthly_volume.state \in {"no_date_column", "no_valid_rows"}
              /\ csv.present /\ csv.rows = <<>>
              /\ "insights" \in views

\* a store with records, filters that no record satisfies, the run at its end
C7_Witness ==
    /\ EmptyResult
    /\ pc = "done"
    /\ Len(df.rows) >= 2
    /\ hs_products # {} /\ countries_origin # {}

\* ---- C8 ----
ViewNeeds ==
    [v \in {"key_metrics", "imports_by_hs", "supply_countries", "origin_countries",
            "tax_by_hs", "top_importers", "export"} |->
        CASE v = "key_metrics" -> {CIF, FOB, TAX, IMPORTER}
          [] v = "imports_by_hs" -> {HS_PRODUCT} \cup Metrics
          [] v = "supply_countries" -> {SUPPLY} \cup Metrics
          [] v = "origin_countries" -> {ORIGIN} \cup Metrics
          [] v = "tax_by_hs" -> {HS_PRODUCT, TAX}
          [] v = "top_importers" -> {IMPORTER, CIF}
          [] OTHER -> {}]

\* C8: at the end of a run over a loaded source, every view whose columns the
\* source has was produced; only the views that need a missing column are
\* skipped.
C8_SchemaDegradesPerView ==
    (script = "app.py" /\ pc \in {"done", "crashed"} /\ df.present) =>
        \A v \in DOMAIN ViewNeeds : ViewNeeds[v] \subseteq df.cols => v \in views

\* ---- C9 ----
TrendDateCol == FirstDateCol(filtered_df.cols)

\* the trend series over the records of index set I of the filtered view:
\* one entry per month of I, valued by the month's sum, ascending in time
TrendIs(I) ==
    LET rows == filtered_df.rows
        months == {ToPeriodM(rows[i][TrendDateCol]) : i \in I}
        mv == monthly_volume.rows
    IN /\ Len(mv) = Cardinality(months)
       /\ \A j \in 1..Len(mv) :
             \E p \in months :
                /\ mv[j][1] = p * 100 + 1
                /\ mv[j][2] = SumOver({i \in I : ToPeriodM(rows[i][TrendDateCol]) = p},
                                      rows, metric)
       /\ \A j, k \in 1..Len(mv) : j < k => mv[j][1] < mv[k][1]

\* C9 as stated: one entry for each month in which a record has a parseable
\* date, a null measure counting 0.
C9_TrendPerDatedMonth ==
    (AfterTrend /\ TrendDateCol # "") =>
        TrendIs({i \in 1..Len(filtered_df.rows) : filtered_df.rows[i][TrendDateCol] # Null})

\* C9 amended: one entry for each month in which a record has a parseable
\* date and a non-null measure, valued by the sum over those records, in
\* strictly ascending chronological order; records without a parseable date or
\* without a measure are in no entry (no date column: no entry at all).
C9_TrendPerDatedMeasuredMonth ==
    AfterTrend =>
        IF TrendDateCol = ""
        THEN monthly_volume.rows = <<>>
        ELSE TrendIs({i \in 1..Len(filtered_df.rows) :
                         /\ filtered_df.rows[i][TrendDateCol] # Null
                         /\ filtered_df.rows[i][metric] # NullNum})

\* two months plotted, the later record first in the view and the later month
\* the larger sum: the series is in time order, not in input or value order
C9_Witness ==
    /\ AfterTrend /\ TrendDateCol # ""
    /\ monthly_volume.state = "plotted"
    /\ Len(monthly_volume.rows) = 2
    /\ monthly_volume.rows[1][2] < monthly_volume.rows[2][2]
    /\ Len(filtered_df.rows) = 2
    /\ filtered_df.rows[1][TrendDateCol] > filtered_df.rows[2][TrendDateCol]
    /\ filtered_df.rows[2][TrendDateCol] # Null

\* ---- C10 ----
\* C10: no step of a request changes the loaded store (its records, their
\* fields, their order), and no step changes the default file or the upload.
C10_StoreImmutable ==
    [][/\ defaultFile' = defaultFile
       /\ uploaded' = uploaded
       /\ (pc \notin {"load", "upload", "eda_load", "done", "crashed"})
             => (df'.rows = df.rows /\ df'.cols = df.cols)]_vars

\* no filter is selected and the date coercion has rewritten a cell of the
\* filtered view
C10_Witness ==
    /\ AfterTrend
    /\ hs_products = {} /\ countries_origin = {} /\ countries_supply = {}
    /\ Len(filtered_df.rows) = Len(df.rows)
    /\ filtered_df.rows # df.rows

====
